---- MODULE Spec2Model ----
(***************************************************************************)
(* A model of resize.py: the command-line entry point, resize_dir (glob,   *)
(* confirmation prompt, multiprocessing.Pool dispatch with the ProgressBar *)
(* callback, close/join) and resize_image (open, strategy selection,       *)
(* mirrored output path, mkdir, save).                                     *)
(*                                                                         *)
(* Paths are sequences of path components (pathlib's parts); Path('.') is  *)
(* the empty sequence.  Optional values (argparse's None) are <<>> and a   *)
(* present value x is <<x>>.  TLC cannot index a string, so Chars gives    *)
(* the characters of every string whose characters the program inspects.   *)
(*                                                                         *)
(* Not modelled: --verbose (it only adds prints), the pixels of an image   *)
(* (an image is its source path and the resize function applied to it),    *)
(* and symbolic links.  Pattern matching is POSIX's (case-sensitive).      *)
(***************************************************************************)
EXTENDS Integers, Sequences, FiniteSets, TLC

\* ------------------------------------------------------------------ bounds
\* Number of pool processes, cpu_count() of the host.
NWorkers == 2
\* Largest number of directory entries a modelled source tree holds.
MaxEntries == 2
\* Widths and heights range over -1 .. MaxDim (and unset).
MaxDim == 2

\* ------------------------------------------------------------ basic values
None == <<>>
Some(x) == <<x>>

\* Python truthiness of an optional int: None and 0 are falsy.
Truthy(o) == o # None /\ o[1] # 0

Range(s) == {s[i] : i \in 1..Len(s)}

\* The characters of the strings the program looks into.
Chars(s) ==
  CASE s = "a.jpg" -> <<"a", ".", "j", "p", "g">>
    [] s = "b.jpg" -> <<"b", ".", "j", "p", "g">>
    [] s = "c.jpg" -> <<"c", ".", "j", "p", "g">>
    [] s = "d.JPG" -> <<"d", ".", "J", "P", "G">>
    [] s = "e.png" -> <<"e", ".", "p", "n", "g">>
    [] s = "f.jpg" -> <<"f", ".", "j", "p", "g">>
    [] s = "jpg"   -> <<"j", "p", "g">>
    [] s = "png"   -> <<"p", "n", "g">>
    [] s = "in"    -> <<"i", "n">>
    [] s = "out"   -> <<"o", "u", "t">>
    [] s = "sub"   -> <<"s", "u", "b">>
    [] s = "y"     -> <<"y">>
    [] s = "Y"     -> <<"Y">>
    [] s = "yes"   -> <<"y", "e", "s">>
    [] s = "YES"   -> <<"Y", "E", "S">>
    [] s = "Yes"   -> <<"Y", "e", "s">>
    [] s = "n"     -> <<"n">>
    [] s = "N"     -> <<"N">>
    [] s = "no"    -> <<"n", "o">>
    [] s = "ye"    -> <<"y", "e">>
    [] s = "yess"  -> <<"y", "e", "s", "s">>
    [] s = ""      -> <<>>
    [] OTHER       -> <<s>>

\* str.lower() on one character, and on a string.
LowerChar(c) ==
  CASE c = "Y" -> "y"
    [] c = "E" -> "e"
    [] c = "S" -> "s"
    [] c = "N" -> "n"
    [] c = "O" -> "o"
    [] c = "J" -> "j"
    [] c = "P" -> "p"
    [] c = "G" -> "g"
    [] OTHER   -> c

Lower(cs) == [i \in 1..Len(cs) |-> LowerChar(cs[i])]

\* ------------------------------------------------------------------- paths
Parent(p) == SubSeq(p, 1, Len(p) - 1)
Name(p) == p[Len(p)]
IsPrefix(a, b) == Len(a) <= Len(b) /\ SubSeq(b, 1, Len(a)) = a
EndsWith(cs, suf) ==
  Len(suf) <= Len(cs) /\ SubSeq(cs, Len(cs) - Len(suf) + 1, Len(cs)) = suf

\* An absolute path starts with the root, "/".
IsAbsolute(p) == Len(p) > 0 /\ p[1] = "/"

\* PurePath.relative_to: the parts after `other`, or ValueError (None here)
\* when `other` does not lead to p or only one of the two is absolute.
RelativeTo(p, other) ==
  IF IsAbsolute(p) = IsAbsolute(other) /\ IsPrefix(other, p)
  THEN Some(SubSeq(p, Len(other) + 1, Len(p)))
  ELSE None

\* What the operating system makes of a path: "name/.." steps are undone.
RECURSIVE Resolve(_)
Resolve(p) ==
  IF \E i \in 2..Len(p) : p[i] = ".." /\ p[i - 1] # ".." /\ p[i - 1] # "/"
  THEN LET i == CHOOSE k \in 2..Len(p) :
                  /\ p[k] = ".." /\ p[k - 1] # ".." /\ p[k - 1] # "/"
                  /\ \A m \in 2..(k - 1) : p[m] # ".."
       IN Resolve(SubSeq(p, 1, i - 2) \o SubSeq(p, i + 1, Len(p)))
  ELSE p

\* Faulty variant: only the file name is kept, flattening the output tree.
JoinPathFlat(base, rel) == Append(base, rel[Len(rel)])

\* PurePath.joinpath with a relative argument.
JoinPath(base, rel) == base \o rel

\* All proper ancestors of p and p itself, down to (not including) the cwd.
Ancestors(p) == {SubSeq(p, 1, k) : k \in 1..Len(p)}


\* ------------------------------------------------------------ program state
VARIABLES
  argv,        \* the command line: width, height, dir, file, outdir, recursive, ext, no_progress
  stdin,       \* the line the user types at the confirmation prompt
  fsDirs,      \* the directories that exist
  fsFiles,     \* the regular files that exist
  unreadable,  \* regular files Image.open cannot decode
  unresizable, \* images the resize library rejects
  pc,          \* position of the main process
  exit,        \* process exit status, None while running
  paths,       \* resize_dir: the list built from the glob generator
  response,    \* resize_dir: what input() returned
  progress,    \* resize_dir: the ProgressBar, None when not created
  pool,        \* the Pool: "none", "run", "closed", "joined"
  submitted,   \* resize_dir: number of paths the for loop has handed to apply_async
  taskq,       \* the Pool's task queue
  jobs,        \* the Pool's ApplyResult of every submitted job
  outq,        \* the Pool's result queue, workers to result handler
  ex,          \* per executor (0: main process, 1..NWorkers: pool workers): position in resize_image
  handler,     \* the Pool's result-handler threads: position in the callback
  written,     \* what Image.save has written: source, destination, strategy
  out          \* what has been printed, in order

vars == <<argv, stdin, fsDirs, fsFiles, unreadable, unresizable, pc, exit, paths,
          response, progress, pool, submitted, taskq, jobs, outq, ex, handler,
          written, out>>

envVars == <<argv, stdin, unreadable, unresizable>>

Workers == 1..NWorkers
MainProcess == 0
Executors == {MainProcess} \cup Workers

\* Faulty variant: callbacks run in two threads.
TwoResultHandlers == {1, 2}

\* The Pool runs one result-handler thread in the parent process; callbacks
\* given to apply_async run in it.
ResultHandlers == {1}

IsDir(p) == Resolve(p) \in fsDirs
IsFile(p) == Resolve(p) \in fsFiles
Exists(p) == IsDir(p) \/ IsFile(p)

Idle == [pc |-> "idle", task |-> None, resized |-> None, final |-> None]
HandlerIdle == [pc |-> "idle", tmp |-> 0]

\* ----------------------------------------------------------- ProgressBar
\* ProgressBar.__init__
NewProgressBar(end) == [end |-> end, current |-> 0]

\* ProgressBar.print_progress: the line printed, and the newline on complete.
\* The percentage divides by self.end.
PrintProgress(bar) ==
  IF bar.end = 0 THEN << <<"ZeroDivisionError", 0, 0>> >>
  ELSE IF bar.current = bar.end
       THEN << <<"progress", bar.current, bar.end>>, <<"newline", 0, 0>> >>
       ELSE << <<"progress", bar.current, bar.end>> >>

\* ------------------------------------------------------------ command line
\* open_dir / open_file: the argparse type of --dir, --outdir / --file.
OpenDirFails(o) == o # None /\ ~IsDir(o[1])
OpenFileFails(o) == o # None /\ ~IsFile(o[1])

\* Faulty variant: the check that --dir and --file are not both given is missing.
ArgErrorBothAllowed(a) ==
  \/ a.outdir = None
  \/ OpenDirFails(a.outdir)
  \/ OpenDirFails(a.dir)
  \/ OpenFileFails(a.file)
  \/ ~(Truthy(a.width) \/ Truthy(a.height))
  \/ ~(a.dir # None \/ a.file # None)

\* parse_args and the three parser.error checks after it.
ArgError(a) ==
  \/ a.outdir = None
  \/ OpenDirFails(a.outdir)
  \/ OpenDirFails(a.dir)
  \/ OpenFileFails(a.file)
  \/ ~(Truthy(a.width) \/ Truthy(a.height))
  \/ ~(a.dir # None \/ a.file # None)
  \/ (a.dir # None /\ a.file # None)

\* Faulty variant: the height is not passed on.
TaskDropsHeight(job, path, indir, outdir, width, height) ==
  [job |-> job, path |-> path, indir |-> indir, outdir |-> outdir,
   width |-> width, height |-> None]

\* The arguments worker / resize_image are called with.
Task(job, path, indir, outdir, width, height) ==
  [job |-> job, path |-> path, indir |-> indir, outdir |-> outdir,
   width |-> width, height |-> height]

\* __main__: parse and validate, then resize_dir or resize_image.
Main ==
  /\ pc = "main"
  /\ IF ArgError(argv)
     THEN /\ pc' = "exit"
          /\ exit' = Some(2)
          /\ out' = Append(out, <<"usage error", 0, 0>>)
          /\ ex' = ex
     ELSE IF argv.dir # None
     THEN /\ pc' = "glob"
          /\ UNCHANGED <<exit, out, ex>>
     ELSE /\ pc' = "resize_image"
          /\ ex' = [ex EXCEPT ![MainProcess] =
                      [Idle EXCEPT !.pc = "open",
                                   !.task = Some(Task(0, argv.file[1], <<>>, argv.outdir[1],
                                                      argv.width, argv.height))]]
          /\ UNCHANGED <<exit, out>>
  /\ UNCHANGED <<envVars, fsDirs, fsFiles, paths, response, progress, pool,
                 submitted, taskq, jobs, outq, handler, written>>


\* -------------------------------------------------------------- resize_dir
\* fnmatch of a directory entry's name against '*.<ext>' (case-sensitive, as
\* on POSIX): the name ends with a dot and the extension.
Matches(name, ext) == EndsWith(Chars(name), <<".">> \o Chars(ext))

\* Path.glob('*.<ext>'): the entries of directory d whose name matches.
GlobDirect(d, ext) ==
  {p \in fsDirs \cup fsFiles : Len(p) > 0 /\ Parent(p) = d /\ Matches(Name(p), ext)}

\* Path.glob('**/*.<ext>'): the same in d and in every directory below it.
GlobRecursive(d, ext) ==
  UNION {GlobDirect(s, ext) : s \in {q \in fsDirs : IsPrefix(d, q)}}

Glob(d, ext, recursive) ==
  IF recursive THEN GlobRecursive(d, ext) ELSE GlobDirect(d, ext)

\* The orders a generator can yield the elements of S in.
Orders(S) == {q \in [1..Cardinality(S) -> S] : Range(q) = S}

\* resize_dir up to the prompt: glob, collect the paths, print the count.
ResizeDirGlob ==
  /\ pc = "glob"
  /\ \E q \in Orders(Glob(argv.dir[1], argv.ext, argv.recursive)) :
       /\ paths' = q
       /\ out' = Append(out, <<"images to resize", Len(q), 0>>)
  /\ pc' = "input"
  /\ UNCHANGED <<envVars, fsDirs, fsFiles, exit, response, progress, pool,
                 submitted, taskq, jobs, outq, ex, handler, written>>

\* Faulty variant: the empty answer takes the default the prompt "(Y/n)" suggests.
AffirmativeDefaultYes(r) == Lower(Chars(r)) \in {Chars("y"), Chars("yes"), Chars("")}

\* response.lower() in ["y", "yes"]
Affirmative(r) == Lower(Chars(r)) \in {Chars("y"), Chars("yes")}

\* The callback handed to apply_async: None under --no-progress.
Callback(no_progress) == IF no_progress THEN None ELSE Some("on_result")

\* Faulty variant: the empty bar is drawn as soon as it is created.
ResizeDirInputShowsBar ==
  /\ pc = "input"
  /\ response' = Some(stdin)
  /\ IF ~Affirmative(stdin)
     THEN /\ out' = out \o << <<"prompt", 0, 0>>, <<"Canceled.", 0, 0>> >>
          /\ pc' = "exit"
          /\ exit' = Some(0)
          /\ UNCHANGED <<progress, pool>>
     ELSE /\ out' = IF argv.no_progress THEN Append(out, <<"prompt", 0, 0>>)
                    ELSE Append(out, <<"prompt", 0, 0>>)
                         \o PrintProgress(NewProgressBar(Len(paths)))
          /\ progress' = IF argv.no_progress THEN None
                         ELSE Some(NewProgressBar(Len(paths)))
          /\ pool' = "run"
          /\ pc' = "submit"
          /\ exit' = exit
  /\ UNCHANGED <<envVars, fsDirs, fsFiles, paths, submitted, taskq, jobs, outq,
                 ex, handler, written>>

\* input(), then "Canceled." or: the ProgressBar, start, the Pool.
ResizeDirInput ==
  /\ pc = "input"
  /\ response' = Some(stdin)
  /\ IF ~Affirmative(stdin)
     THEN /\ out' = out \o << <<"prompt", 0, 0>>, <<"Canceled.", 0, 0>> >>
          /\ pc' = "exit"
          /\ exit' = Some(0)
          /\ UNCHANGED <<progress, pool>>
     ELSE /\ out' = Append(out, <<"prompt", 0, 0>>)
          /\ progress' = IF argv.no_progress THEN None
                         ELSE Some(NewProgressBar(Len(paths)))
          /\ pool' = "run"
          /\ pc' = "submit"
          /\ exit' = exit
  /\ UNCHANGED <<envVars, fsDirs, fsFiles, paths, submitted, taskq, jobs, outq,
                 ex, handler, written>>

\* Faulty variant: under --no-progress the loop counts the path but submits no task.
ResizeDirSubmitQuietDrops ==
  /\ pc = "submit"
  /\ submitted < Len(paths)
  /\ submitted' = submitted + 1
  /\ taskq' = IF argv.no_progress THEN taskq
              ELSE Append(taskq, Task(submitted + 1, paths[submitted + 1], argv.dir[1],
                                      argv.outdir[1], argv.width, argv.height))
  /\ jobs' = Append(jobs, "pending")
  /\ UNCHANGED <<envVars, fsDirs, fsFiles, pc, exit, paths, response, progress,
                 pool, outq, ex, handler, written, out>>

\* One iteration of the for loop: p.apply_async(worker, args=(path, ...), callback=cb).
ResizeDirSubmit ==
  /\ pc = "submit"
  /\ submitted < Len(paths)
  /\ submitted' = submitted + 1
  /\ taskq' = Append(taskq, Task(submitted + 1, paths[submitted + 1], argv.dir[1],
                                 argv.outdir[1], argv.width, argv.height))
  /\ jobs' = Append(jobs, "pending")
  /\ UNCHANGED <<envVars, fsDirs, fsFiles, pc, exit, paths, response, progress,
                 pool, outq, ex, handler, written, out>>

\* p.close()
ResizeDirClose ==
  /\ pc = "submit"
  /\ submitted = Len(paths)
  /\ pool' = "closed"
  /\ pc' = "join"
  /\ UNCHANGED <<envVars, fsDirs, fsFiles, exit, paths, response, progress,
                 submitted, taskq, jobs, outq, ex, handler, written, out>>

\* Faulty variant: the join returns as soon as the task queue is empty.
PoolDrainedQueueOnly == taskq = <<>>

\* What p.join() waits for: the workers have drained the task queue and left,
\* and the result handler has handled every result.
PoolDrained ==
  /\ taskq = <<>>
  /\ \A w \in Workers : ex[w].pc = "idle"
  /\ outq = <<>>
  /\ \A h \in ResultHandlers : handler[h].pc = "idle"

\* p.join() returns.
ResizeDirJoin ==
  /\ pc = "join"
  /\ PoolDrained
  /\ pool' = "joined"
  /\ pc' = "took"
  /\ UNCHANGED <<envVars, fsDirs, fsFiles, exit, paths, response, progress,
                 submitted, taskq, jobs, outq, ex, handler, written, out>>

\* end = time.time(); print("Took ... sec."); the program ends.
ResizeDirTook ==
  /\ pc = "took"
  /\ out' = Append(out, <<"Took", 0, 0>>)
  /\ pc' = "exit"
  /\ exit' = Some(0)
  /\ UNCHANGED <<envVars, fsDirs, fsFiles, paths, response, progress, pool,
                 submitted, taskq, jobs, outq, ex, handler, written>>


\* ------------------------------------------------------------ resize_image
\* The branch on width and height, after the assertion.
Strategy(width, height) ==
  IF ~(Truthy(width) \/ Truthy(height)) THEN "AssertionError"
  ELSE IF Truthy(width) /\ Truthy(height) THEN "resize_thumbnail"
  ELSE IF Truthy(width) THEN "resize_width"
  ELSE "resize_height"

\* How a call of resize_image by executor e ends.  In a pool worker the
\* outcome goes to the result queue and the worker is free again (worker
\* returns None; an exception travels as the job's error).  In the main
\* process (--file) an exception is uncaught and ends the program with
\* status 1 and a traceback naming it; a normal return ends it with status 0.
Finish(e, success, value) ==
  /\ ex' = [ex EXCEPT ![e] = Idle]
  /\ IF e = MainProcess
     THEN /\ pc' = "exit"
          /\ exit' = IF success THEN Some(0) ELSE Some(1)
          /\ out' = IF success THEN out ELSE Append(out, <<value, 0, 0>>)
          /\ outq' = outq
     ELSE /\ outq' = Append(outq, [job |-> ex[e].task[1].job, success |-> success,
                                   value |-> value])
          /\ UNCHANGED <<pc, exit, out>>

\* Faulty variant: an image that cannot be decoded or resized is not noticed.
ImageOpenUnchecked(e) ==
  /\ ex[e].pc = "open"
  /\ LET t == ex[e].task[1]
         how == Strategy(t.width, t.height)
     IN IF how = "AssertionError" THEN Finish(e, FALSE, "AssertionError")
        ELSE /\ ex' = [ex EXCEPT ![e].pc = "path", ![e].resized = Some(how)]
             /\ UNCHANGED <<pc, exit, out, outq>>
  /\ UNCHANGED <<envVars, fsDirs, fsFiles, paths, response, progress, pool,
                 submitted, taskq, jobs, handler, written>>

\* assert width or height; Image.open(file.resolve()); the resize call.
ImageOpen(e) ==
  /\ ex[e].pc = "open"
  /\ LET t == ex[e].task[1]
         how == Strategy(t.width, t.height)
     IN IF how = "AssertionError" THEN Finish(e, FALSE, "AssertionError")
        ELSE IF ~IsFile(t.path) \/ t.path \in unreadable
        THEN Finish(e, FALSE, "OSError")
        ELSE IF t.path \in unresizable THEN Finish(e, FALSE, "ImageSizeError")
        ELSE /\ ex' = [ex EXCEPT ![e].pc = "path", ![e].resized = Some(how)]
             /\ UNCHANGED <<pc, exit, out, outq>>
  /\ UNCHANGED <<envVars, fsDirs, fsFiles, paths, response, progress, pool,
                 submitted, taskq, jobs, handler, written>>

\* final_path = outdir.joinpath(file.relative_to(indir)); final_path.parent.exists()
ImagePath(e) ==
  /\ ex[e].pc = "path"
  /\ LET t == ex[e].task[1]
         rel == RelativeTo(t.path, t.indir)
     IN IF rel = None THEN Finish(e, FALSE, "ValueError")
        ELSE LET final == JoinPath(t.outdir, rel[1])
             IN /\ ex' = [ex EXCEPT ![e].final = Some(final),
                                    ![e].pc = IF Exists(Parent(final)) THEN "save"
                                              ELSE "mkdir"]
                /\ UNCHANGED <<pc, exit, out, outq>>
  /\ UNCHANGED <<envVars, fsDirs, fsFiles, paths, response, progress, pool,
                 submitted, taskq, jobs, handler, written>>

\* final_path.parent.mkdir(parents=True): exist_ok is left False.
ImageMkdir(e) ==
  /\ ex[e].pc = "mkdir"
  /\ LET parent == Parent(ex[e].final[1])
     IN IF Exists(parent)
        THEN Finish(e, FALSE, "FileExistsError") /\ fsDirs' = fsDirs
        ELSE IF \E a \in Ancestors(Resolve(parent)) : IsFile(a)
        THEN Finish(e, FALSE, "NotADirectoryError") /\ fsDirs' = fsDirs
        ELSE /\ fsDirs' = fsDirs \cup Ancestors(Resolve(parent))
             /\ ex' = [ex EXCEPT ![e].pc = "save"]
             /\ UNCHANGED <<pc, exit, out, outq>>
  /\ UNCHANGED <<envVars, fsFiles, paths, response, progress, pool,
                 submitted, taskq, jobs, handler, written>>

\* resized.save(final_path, resized.format)
ImageSave(e) ==
  /\ ex[e].pc = "save"
  /\ LET t == ex[e].task[1]
         final == ex[e].final[1]
     IN IF IsDir(final) \/ ~IsDir(Parent(final))
        THEN Finish(e, FALSE, "OSError") /\ UNCHANGED <<fsFiles, written>>
        ELSE /\ fsFiles' = fsFiles \cup {Resolve(final)}
             /\ written' = written \cup
                  {[src |-> t.path, dst |-> Resolve(final), how |-> ex[e].resized[1]]}
             /\ Finish(e, TRUE, "None")
  /\ UNCHANGED <<envVars, fsDirs, paths, response, progress, pool,
                 submitted, taskq, jobs, handler>>

\* ------------------------------------------------------------------- Pool
\* Faulty variant: the task is read but left in the queue.
WorkerGetLeavesTask(w) ==
  /\ pool \in {"run", "closed"}
  /\ ex[w].pc = "idle"
  /\ taskq # <<>>
  /\ ex' = [ex EXCEPT ![w] = [Idle EXCEPT !.pc = "open", !.task = Some(Head(taskq))]]
  /\ UNCHANGED <<envVars, fsDirs, fsFiles, pc, exit, paths, response, progress,
                 pool, submitted, taskq, jobs, outq, handler, written, out>>

\* A pool process takes the next task: worker(path, directory, outdir, ...).
WorkerGet(w) ==
  /\ pool \in {"run", "closed"}
  /\ ex[w].pc = "idle"
  /\ taskq # <<>>
  /\ ex' = [ex EXCEPT ![w] = [Idle EXCEPT !.pc = "open", !.task = Some(Head(taskq))]]
  /\ taskq' = Tail(taskq)
  /\ UNCHANGED <<envVars, fsDirs, fsFiles, pc, exit, paths, response, progress,
                 pool, submitted, jobs, outq, handler, written, out>>

\* Faulty variant: the result of a failed job is never taken from the queue.
HandleResultSkipsErrors(h) ==
  /\ handler[h].pc = "idle"
  /\ outq # <<>>
  /\ Head(outq).success
  /\ jobs' = [jobs EXCEPT ![Head(outq).job] = "ok"]
  /\ handler' = [handler EXCEPT ![h].pc =
                   IF Callback(argv.no_progress) # None THEN "on_result" ELSE "idle"]
  /\ outq' = Tail(outq)
  /\ UNCHANGED <<envVars, fsDirs, fsFiles, pc, exit, paths, response, progress,
                 pool, submitted, taskq, ex, written, out>>

\* The result handler takes a result, sets the job's ApplyResult, and calls
\* the callback when there is one and the job succeeded (no error_callback
\* is given, so a failed job's result is only stored).
HandleResult(h) ==
  /\ handler[h].pc = "idle"
  /\ outq # <<>>
  /\ LET r == Head(outq)
     IN /\ jobs' = [jobs EXCEPT ![r.job] = IF r.success THEN "ok" ELSE "error"]
        /\ handler' = [handler EXCEPT ![h].pc =
                         IF Callback(argv.no_progress) # None /\ r.success
                         THEN "on_result" ELSE "idle"]
  /\ outq' = Tail(outq)
  /\ UNCHANGED <<envVars, fsDirs, fsFiles, pc, exit, paths, response, progress,
                 pool, submitted, taskq, ex, written, out>>

\* ProgressBar.next, self.current += 1: the read of self.current ...
ProgressNextLoad(h) ==
  /\ handler[h].pc = "on_result"
  /\ handler' = [handler EXCEPT ![h] = [pc |-> "store", tmp |-> progress[1].current]]
  /\ UNCHANGED <<envVars, fsDirs, fsFiles, pc, exit, paths, response, progress,
                 pool, submitted, taskq, jobs, outq, ex, written, out>>

\* ... and the write of the incremented value.
ProgressNextStore(h) ==
  /\ handler[h].pc = "store"
  /\ progress' = Some([progress[1] EXCEPT !.current = handler[h].tmp + 1])
  /\ handler' = [handler EXCEPT ![h].pc = "print"]
  /\ UNCHANGED <<envVars, fsDirs, fsFiles, pc, exit, paths, response,
                 pool, submitted, taskq, jobs, outq, ex, written, out>>

\* ProgressBar.print_progress, the second statement of on_result.
ProgressPrint(h) ==
  /\ handler[h].pc = "print"
  /\ out' = out \o PrintProgress(progress[1])
  /\ handler' = [handler EXCEPT ![h] = HandlerIdle]
  /\ UNCHANGED <<envVars, fsDirs, fsFiles, pc, exit, paths, response, progress,
                 pool, submitted, taskq, jobs, outq, ex, written>>

\* ------------------------------------------------------------ environments
InDir == <<"in">>
OutDir == <<"out">>
FileA == <<"in", "a.jpg">>
FileB == <<"in", "sub", "b.jpg">>
FileC == <<"in", "sub", "c.jpg">>
FileD == <<"in", "d.JPG">>
FileE == <<"in", "sub", "e.png">>
DirF == <<"in", "f.jpg">>

\* A file system: the working directory with in/ and out/, the given files
\* and directories under in/ (with the directories leading to them).
Tree(files, dirs) ==
  [dirs |-> {<<>>, InDir, OutDir} \cup dirs \cup UNION {Ancestors(Parent(f)) : f \in files},
   files |-> files]

Args(width, height, dir, file, outdir, recursive, ext, no_progress) ==
  [width |-> width, height |-> height, dir |-> dir, file |-> file, outdir |-> outdir,
   recursive |-> recursive, ext |-> ext, no_progress |-> no_progress]

\* The state before the first statement runs.
Fresh ==
  /\ exit = None
  /\ paths = <<>>
  /\ response = None
  /\ progress = None
  /\ pool = "none"
  /\ submitted = 0
  /\ taskq = <<>>
  /\ jobs = <<>>
  /\ outq = <<>>
  /\ handler = [h \in ResultHandlers |-> HandlerIdle]
  /\ written = {}
  /\ out = <<>>

\* The file system is one of `trees`, with at most maxBad images that cannot
\* be decoded or resized.
Environment(trees, maxBad) ==
  \E t \in trees :
    /\ fsDirs = t.dirs
    /\ fsFiles = t.files
    /\ unreadable \in SUBSET t.files
    /\ unresizable \in SUBSET (t.files \ unreadable)
    /\ Cardinality(unreadable \cup unresizable) <= maxBad

\* The program is started from the command line.
InitWith(argvs, trees, maxBad, answers) ==
  /\ argv \in argvs
  /\ stdin \in answers
  /\ Environment(trees, maxBad)
  /\ pc = "main"
  /\ ex = [e \in Executors |-> Idle]
  /\ Fresh

TreesOf(candidates, n) ==
  {Tree(S \ {DirF}, S \cap {DirF}) : S \in {T \in SUBSET candidates : Cardinality(T) <= n}}

\* The pipeline runs: up to MaxEntries of a.jpg, sub/b.jpg, sub/c.jpg under
\* in/, any of them undecodable or unresizable; --dir in (recursive or not,
\* with or without --no-progress) or --file in/a.jpg; the answer y or n.
PipelineTrees == TreesOf({FileA, FileB, FileC}, MaxEntries)

PipelineArgs ==
  {Args(Some(1), None, Some(InDir), None, Some(OutDir), TRUE, "jpg", np) : np \in BOOLEAN}
  \cup {Args(Some(1), None, Some(InDir), None, Some(OutDir), FALSE, "jpg", FALSE)}
  \cup {Args(Some(1), Some(1), None, Some(FileA), Some(OutDir), FALSE, "jpg", FALSE)}

Init == InitWith(PipelineArgs, PipelineTrees, MaxEntries, {"y", "n"})

Next ==
  \/ Main
  \/ ResizeDirGlob
  \/ ResizeDirInput
  \/ ResizeDirSubmit
  \/ ResizeDirClose
  \/ ResizeDirJoin
  \/ ResizeDirTook
  \/ \E e \in Executors : ImageOpen(e)
  \/ \E e \in Executors : ImagePath(e)
  \/ \E e \in Executors : ImageMkdir(e)
  \/ \E e \in Executors : ImageSave(e)
  \/ \E w \in Workers : WorkerGet(w)
  \/ \E h \in ResultHandlers : HandleResult(h)
  \/ \E h \in ResultHandlers : ProgressNextLoad(h)
  \/ \E h \in ResultHandlers : ProgressNextStore(h)
  \/ \E h \in ResultHandlers : ProgressPrint(h)

Spec == Init /\ [][Next]_vars


\* Scheduling: the operating system keeps running the main process, every
\* pool process and the pool's result-handler thread while they can step.
MainProcessStep ==
  \/ Main \/ ResizeDirGlob \/ ResizeDirInput \/ ResizeDirSubmit \/ ResizeDirClose
  \/ ResizeDirJoin \/ ResizeDirTook

ExecutorStep(e) ==
  \/ ImageOpen(e) \/ ImagePath(e) \/ ImageMkdir(e) \/ ImageSave(e)
  \/ (e \in Workers /\ WorkerGet(e))

HandlerStep(h) ==
  \/ HandleResult(h) \/ ProgressNextLoad(h) \/ ProgressNextStore(h) \/ ProgressPrint(h)

Fairness ==
  /\ WF_vars(MainProcessStep)
  /\ \A e \in Executors : WF_vars(ExecutorStep(e))
  /\ \A h \in ResultHandlers : WF_vars(HandlerStep(h))

SpecLive == Init /\ [][Next]_vars /\ Fairness

\* ------------------------------------------------- other sets of inputs
Dims == {None} \cup {Some(n) : n \in -1..MaxDim}

\* Command lines of every shape, valid and invalid, on the tree of the
\* example (a.jpg and sub/b.jpg); the user answers y.
CliPaths == {None, Some(InDir), Some(FileA), Some(<<"missing">>)}

CliArgs ==
  {Args(w, h, d, f, o, TRUE, "jpg", FALSE) :
     w \in Dims, h \in Dims, d \in CliPaths, f \in CliPaths,
     o \in {None, Some(OutDir), Some(FileA), Some(<<"missing">>)}}

InitCli == InitWith(CliArgs, {Tree({FileA, FileB}, {})}, 0, {"y"})

SpecCli == InitCli /\ [][Next]_vars

\* Every answer to the prompt, in directory mode.
Answers == {"y", "Y", "yes", "YES", "Yes", "n", "N", "no", "ye", "yess", ""}

ConfirmArgs ==
  {Args(Some(1), None, Some(InDir), None, Some(OutDir), r, "jpg", np) :
     r \in BOOLEAN, np \in BOOLEAN}

InitConfirm == InitWith(ConfirmArgs, TreesOf({FileA, FileB}, MaxEntries), 1, Answers)

SpecConfirm == InitConfirm /\ [][Next]_vars

\* Enumeration alone: trees with files of several extensions at two depths
\* and a directory named like an image; the program runs up to the prompt.
EnumTrees == TreesOf({FileA, FileB, FileD, FileE, DirF}, MaxEntries + 1)

EnumArgs ==
  {Args(Some(1), None, Some(InDir), None, Some(OutDir), r, x, FALSE) :
     r \in BOOLEAN, x \in {"jpg", "png"}}

InitEnum == InitWith(EnumArgs, EnumTrees, 0, {"n"})

NextEnum == Main \/ ResizeDirGlob

SpecEnum == InitEnum /\ [][NextEnum]_vars

\* Single-file mode: --file is a path relative to the working directory, an
\* absolute path, a path outside the working directory, or a missing file.
AbsG == <<"/", "abs", "g.jpg">>
OutsideH == <<"..", "h.jpg">>

FileArgs ==
  {Args(w, h, None, Some(f), Some(OutDir), FALSE, "jpg", FALSE) :
     w \in Dims, h \in Dims, f \in {FileA, AbsG, OutsideH, FileB}}

InitFile == InitWith(FileArgs, {Tree({FileA, AbsG, OutsideH}, {})}, 1, {"y"})

NextFile ==
  \/ Main
  \/ ImageOpen(MainProcess)
  \/ ImagePath(MainProcess)
  \/ ImageMkdir(MainProcess)
  \/ ImageSave(MainProcess)

SpecFile == InitFile /\ [][NextFile]_vars

\* resize_image called directly (it is a module-level function) by the main
\* process with any width and height.
InitPolicy ==
  /\ argv = Args(None, None, None, None, None, FALSE, "jpg", FALSE)
  /\ stdin = ""
  /\ Environment(TreesOf({FileA, FileB}, MaxEntries), 0)
  /\ pc = "resize_image"
  /\ \E w \in Dims, h \in Dims, f \in fsFiles :
       ex = [e \in Executors |->
               IF e = MainProcess
               THEN [Idle EXCEPT !.pc = "open",
                                 !.task = Some(Task(0, f, InDir, OutDir, w, h))]
               ELSE Idle]
  /\ Fresh

NextPolicy ==
  \/ ImageOpen(MainProcess)
  \/ ImagePath(MainProcess)
  \/ ImageMkdir(MainProcess)
  \/ ImageSave(MainProcess)

SpecPolicy == InitPolicy /\ [][NextPolicy]_vars


\* ------------------------------------------------------------------ claims
DirMode == argv.dir # None
FailedJobs == {j \in 1..Len(jobs) : jobs[j] = "error"}
OkJobs == {j \in 1..Len(jobs) : jobs[j] = "ok"}
Lines(kind) == {i \in 1..Len(out) : out[i][1] = kind}
\* What exists below the output directory.
UnderOut == {p \in fsDirs \cup fsFiles : IsPrefix(OutDir, p) /\ p # OutDir}
\* The output path the specification gives a source path of a batch.
Mirrored(p) == argv.outdir[1] \o SubSeq(p, Len(argv.dir[1]) + 1, Len(p))

\* C1: in a confirmed batch of N files where exactly one (an undecodable
\* file) fails, the other N-1 are written, the run ends normally, the total
\* N is printed, and the failure is reported with its job.
C1_FailureIsolation ==
  (DirMode /\ pc = "exit" /\ pool = "joined"
     /\ Cardinality(FailedJobs) = 1 /\ \A j \in FailedJobs : paths[j] \in unreadable)
  => /\ exit = Some(0)
     /\ \A j \in 1..Len(paths) : j \notin FailedJobs => \E r \in written : r.src = paths[j]
     /\ Cardinality(written) = Len(paths) - 1
     /\ \E i \in 1..Len(out) : out[i] = <<"images to resize", Len(paths), 0>>
     /\ \A j \in FailedJobs : \E i \in 1..Len(out) : out[i] = <<"failed", j, 0>>

\* C2: in directory mode nothing is dispatched before an answer whose lower
\* case is y or yes; after any other answer the run is canceled: status 0,
\* nothing dispatched, no pool, nothing written below the output directory.
C2_ConfirmationGate ==
  DirMode =>
    /\ (submitted > 0 \/ taskq # <<>> \/ jobs # <<>> \/ pool # "none"
        \/ \E w \in Workers : ex[w] # Idle)
       => (response # None /\ response[1] \in {"y", "Y", "yes", "YES", "Yes"})
    /\ (response # None /\ response[1] \notin {"y", "Y", "yes", "YES", "Yes"})
       => /\ pc = "exit" /\ exit = Some(0)
          /\ out[Len(out)] = <<"Canceled.", 0, 0>>
          /\ submitted = 0 /\ taskq = <<>> /\ jobs = <<>> /\ pool = "none"
          /\ \A e \in Executors : ex[e] = Idle
          /\ written = {} /\ UnderOut = {}

C2_Witness ==
  DirMode /\ response = Some("") /\ pc = "exit" /\ Len(paths) = 2

\* C3: when a batch ends, every failed job is in the printed summary and the
\* exit status is zero exactly when no job failed.
C3_ErrorsSurfaced ==
  (DirMode /\ pc = "exit" /\ pool = "joined")
  => /\ \A j \in FailedJobs : \E i \in 1..Len(out) : out[i] = <<"failed", j, 0>>
     /\ (exit = Some(0)) <=> (FailedJobs = {})

\* C4: with neither --width nor --height, with none or both of --dir and
\* --file, or with --outdir / --dir / --file not an existing directory /
\* directory / file, the program ends with a non-zero status having opened,
\* asked and written nothing; work starts only with exactly one of --dir, --file.
BadConfig ==
  \/ argv.width = None /\ argv.height = None
  \/ (argv.dir = None) = (argv.file = None)
  \/ argv.outdir = None
  \/ argv.outdir[1] \notin fsDirs
  \/ argv.dir # None /\ argv.dir[1] \notin fsDirs
  \/ argv.file # None /\ argv.file[1] \notin fsFiles

C4_ConfigErrors ==
  /\ (BadConfig /\ pc # "main")
     => /\ pc = "exit" /\ exit # None /\ exit[1] # 0
        /\ \A e \in Executors : ex[e] = Idle
        /\ pool = "none" /\ response = None /\ Lines("prompt") = {}
        /\ written = {} /\ UnderOut = {}
  /\ (pc \notin {"main", "exit"} \/ exit \in {Some(0), Some(1)})
     => (argv.dir = None) # (argv.file = None)

C4_Witness ==
  /\ argv.dir = Some(InDir) /\ argv.file = Some(FileA) /\ argv.outdir = Some(OutDir)
  /\ argv.width = Some(1)
  /\ exit = Some(2)

\* C5: a width or height is set exactly when it is a present positive
\* integer; both set selects resize_thumbnail, only width resize_width, only
\* height resize_height, and with neither set resize_image fails its assertion.
IsSet(o) == o # None /\ o[1] > 0

C5_StrategySelection ==
  \A e \in Executors :
    LET t == ex[e].task[1] IN
    /\ (ex[e].task # None /\ ex[e].resized # None)
       => /\ IsSet(t.width) \/ IsSet(t.height)
          /\ ex[e].resized[1] =
               IF IsSet(t.width) /\ IsSet(t.height) THEN "resize_thumbnail"
               ELSE IF IsSet(t.width) THEN "resize_width"
               ELSE "resize_height"
    /\ (ex[e].task # None /\ ~IsSet(t.width) /\ ~IsSet(t.height)) => ex[e].pc = "open"

\* C6: in directory mode the file written for p is outdir joined with p
\* relative to the source directory (a.jpg -> out/a.jpg, sub/b.jpg ->
\* out/sub/b.jpg), distinct sources have distinct outputs, and after a batch
\* in which no job failed the written paths are exactly the mirrored paths.
C6_MirroredOutput ==
  DirMode =>
    /\ \A r \in written :
         /\ r.src \in Range(paths)
         /\ r.dst = Mirrored(r.src)
         /\ r.dst \in fsFiles
         /\ r.src = FileA => r.dst = <<"out", "a.jpg">>
         /\ r.src = FileB => r.dst = <<"out", "sub", "b.jpg">>
    /\ \A i, j \in 1..Len(paths) :
         i # j => (paths[i] # paths[j] /\ Mirrored(paths[i]) # Mirrored(paths[j]))
    /\ (pool = "joined" /\ FailedJobs = {})
       => /\ {r.dst : r \in written} = {Mirrored(paths[i]) : i \in 1..Len(paths)}
          /\ UnderOut \cap fsFiles = {Mirrored(paths[i]) : i \in 1..Len(paths)}

C6_Witness ==
  /\ DirMode /\ pool = "joined" /\ FailedJobs = {}
  /\ {r.src : r \in written} = {FileA, FileB}

\* C7: the enumerated paths are exactly the regular files whose name ends
\* with the extension, directly in the directory (non-recursive) or at any
\* depth (recursive), each once; no directory is among them.
C7_Enumeration ==
  pc = "input" =>
    /\ Range(paths) =
         {f \in fsFiles :
            /\ IF argv.recursive THEN IsPrefix(argv.dir[1], Parent(f))
               ELSE Parent(f) = argv.dir[1]
            /\ EndsWith(Chars(Name(f)), <<".">> \o Chars(argv.ext))}
    /\ Cardinality(Range(paths)) = Len(paths)

\* C8: what a finished batch dispatched, wrote and completed, and everything
\* it printed other than progress lines, is the same function of the paths
\* and the per-item outcomes with and without --no-progress; with it no
\* progress line is printed.
NotProgress(i) == out[i][1] \notin {"progress", "newline"}

C8_QuietModeRenderingOnly ==
  (DirMode /\ pool = "joined") =>
    /\ submitted = Len(paths) /\ Len(jobs) = Len(paths)
    /\ OkJobs \cup FailedJobs = 1..Len(paths)
    /\ {r.src : r \in written} = {paths[j] : j \in OkJobs}
    /\ Cardinality(written) = Cardinality(OkJobs)
    /\ SelectSeq([i \in 1..Len(out) |-> IF NotProgress(i) THEN out[i][1] ELSE ""],
                 LAMBDA k : k # "")
         = IF pc = "exit" THEN <<"images to resize", "prompt", "Took">>
                          ELSE <<"images to resize", "prompt">>
    /\ argv.no_progress => (Lines("progress") = {} /\ Lines("newline") = {})
    /\ ~argv.no_progress => Cardinality(Lines("progress")) = Cardinality(OkJobs)

C8_Witness ==
  /\ DirMode /\ pool = "joined" /\ argv.no_progress
  /\ Cardinality(written) = 2

\* C9: after the join every dispatched item has been reported exactly once:
\* every job has its result and, with progress enabled, the progress counter
\* equals the number of dispatched items.
C9_ReportedExactlyOnce ==
  (DirMode /\ pool = "joined") =>
    /\ Len(jobs) = submitted
    /\ OkJobs \cup FailedJobs = 1..submitted
    /\ progress # None => progress[1].current = submitted

\* C10: at most one read-increment-write of ProgressBar.current is in
\* progress; the counter equals the number of callbacks that have passed
\* their increment; each rendering sees the value its own update wrote.
C10_NoLostIncrements ==
  /\ Cardinality({h \in ResultHandlers : handler[h].pc = "store"}) <= 1
  /\ progress # None =>
       progress[1].current =
         Cardinality(OkJobs)
         - Cardinality({h \in ResultHandlers : handler[h].pc \in {"on_result", "store"}})
  /\ \A h \in ResultHandlers :
       handler[h].pc = "print" => progress[1].current = handler[h].tmp + 1

C10_Witness ==
  /\ progress # None /\ progress[1].current = 2
  /\ \E h \in ResultHandlers : handler[h].pc = "print"


\* C11: no worker fails because the output directory already exists, and
\* after the join every decodable, resizable item of the batch is saved.
C11_MkdirIdempotent ==
  /\ \A i \in 1..Len(outq) : outq[i].value # "FileExistsError"
  /\ (DirMode /\ pool = "joined")
     => \A j \in 1..Len(paths) :
          paths[j] \notin (unreadable \cup unresizable)
          => \E r \in written : r.src = paths[j]

\* C12: the elapsed time is printed only when no item is queued, running or
\* waiting for its result to be handled; the main process can always take
\* its next step except at the join.
MainStep ==
  \/ Main \/ ResizeDirGlob \/ ResizeDirInput \/ ResizeDirSubmit \/ ResizeDirClose
  \/ ResizeDirTook

C12_JoinBarrier ==
  /\ (pc = "took" \/ pool = "joined" \/ Lines("Took") # {})
     => /\ taskq = <<>>
        /\ outq = <<>>
        /\ \A w \in Workers : ex[w] = Idle
        /\ \A h \in ResultHandlers : handler[h].pc = "idle"
        /\ Len(jobs) = Len(paths)
        /\ \A j \in 1..Len(jobs) : jobs[j] # "pending"
  /\ pc \in {"main", "glob", "input", "submit", "took"} => ENABLED MainStep

C12_Witness ==
  /\ Lines("Took") # {} /\ Len(jobs) = 2
  /\ FailedJobs # {} /\ OkJobs # {}

\* C13: job j is path j of the enumeration; every submitted job is at
\* exactly one place (queued, with one worker, in the result queue, or
\* finished); once the pool is closed every path has been submitted once and
\* nothing more is submitted.
Holders(j) == {w \in Workers : ex[w].task # None /\ ex[w].task[1].job = j}

C13_FixedWorkList ==
  DirMode =>
    /\ submitted <= Len(paths) /\ Len(jobs) = submitted
    /\ \A i \in 1..Len(taskq) : taskq[i].path = paths[taskq[i].job]
    /\ \A w \in Workers : ex[w].task # None
         => ex[w].task[1].path = paths[ex[w].task[1].job]
    /\ \A j \in 1..submitted :
         Cardinality({i \in 1..Len(taskq) : taskq[i].job = j})
         + Cardinality(Holders(j))
         + Cardinality({i \in 1..Len(outq) : outq[i].job = j})
         + (IF jobs[j] = "pending" THEN 0 ELSE 1) = 1
    /\ \A i \in 1..Len(taskq) : taskq[i].job \in 1..submitted
    /\ pool \in {"closed", "joined"} => submitted = Len(paths)
    /\ pool = "joined" => pc \in {"took", "exit"}

C13_Witness ==
  /\ DirMode /\ pool = "closed" /\ Len(paths) = 2
  /\ \A w \in Workers : ex[w].pc = "save"

\* C19: in single-file mode, for an existing file, a valid width/height and
\* an existing output directory, the program ends with status 0, without a
\* prompt, with exactly one file below the output directory.
C19_SingleFile ==
  (/\ argv.dir = None /\ argv.file # None /\ argv.outdir # None
   /\ argv.file[1] \in fsFiles \ (unreadable \cup unresizable)
   /\ argv.outdir[1] \in fsDirs
   /\ IsSet(argv.width) \/ IsSet(argv.height)
   /\ pc = "exit")
  => /\ exit = Some(0)
     /\ Lines("prompt") = {} /\ Lines("ValueError") = {}
     /\ Cardinality(UnderOut \cap fsFiles) = 1


\* C14: once the pool exists the batch is never canceled and nothing is
\* taken back, and under fair scheduling the program ends with status 0
\* having printed the elapsed time.
C14_RunToCompletion ==
  /\ (pool = "run") ~> (pc = "exit" /\ exit = Some(0) /\ Lines("Took") # {})
  /\ [][pool # "none"
        => /\ pool' # "none"
           /\ submitted' >= submitted
           /\ Lines("Canceled.")' = {}
           /\ (pc' = "exit" => pc \in {"took", "exit"})]_vars

C14_Witness ==
  /\ pc = "exit" /\ exit = Some(0) /\ Lines("Took") # {}
  /\ Len(paths) = 2 /\ Cardinality(FailedJobs) = 2


Faulty == unreadable \cup unresizable

C16_FailedItemWritesNothing ==
  /\ \A e \in Executors :
       (ex[e].task # None /\ ex[e].task[1].path \in Faulty)
       => (ex[e].pc = "open" /\ ex[e].final = None /\ ex[e].resized = None)
  /\ \A r \in written : r.src \notin Faulty
  /\ UnderOut \cap fsFiles = {r.dst : r \in written}
  /\ UnderOut \cap fsDirs \subseteq
       UNION {Ancestors(Parent(d)) :
                d \in {r.dst : r \in written}
                      \cup {ex[e].final[1] : e \in {x \in Executors : ex[x].pc = "save"}}}

C16_Witness ==
  /\ DirMode /\ pool = "joined"
  /\ paths = <<FileB>> /\ FileB \in unresizable /\ FailedJobs = {1}
  /\ UnderOut = {}

\* C17: after validation every call of resize_image, in the main process
\* and in every worker, gets the width and height of the command line, at
\* least one of them set (as the assertion tests it: present and not 0),
\* and the assertion never fails.
C17_PreconditionHolds ==
  /\ \A e \in Executors : ex[e].task # None =>
       /\ ex[e].task[1].width = argv.width /\ ex[e].task[1].height = argv.height
       /\ \/ (argv.width # None /\ argv.width[1] # 0)
          \/ (argv.height # None /\ argv.height[1] # 0)
  /\ \A i \in 1..Len(taskq) :
       taskq[i].width = argv.width /\ taskq[i].height = argv.height
  /\ \A i \in 1..Len(outq) : outq[i].value # "AssertionError"
  /\ Lines("AssertionError") = {}

C17_Witness ==
  /\ argv.width = None /\ argv.height = Some(1)
  /\ \E w \in Workers : ex[w].pc = "save"

\* C18: with zero files found the count is printed and the prompt shown; on
\* a yes nothing is dispatched, no progress line is computed, and the
\* program passes close and join and ends with status 0 after Took.
C18_EmptyBatch ==
  (DirMode /\ pc \notin {"main", "glob"} /\ Len(paths) = 0) =>
    /\ out[1] = <<"images to resize", 0, 0>>
    /\ response # None => out[2] = <<"prompt", 0, 0>>
    /\ submitted = 0 /\ taskq = <<>> /\ jobs = <<>> /\ outq = <<>>
    /\ \A e \in Executors : ex[e] = Idle
    /\ \A h \in ResultHandlers : handler[h] = HandlerIdle
    /\ Lines("progress") = {} /\ Lines("ZeroDivisionError") = {}
    /\ pc = "join" => ENABLED ResizeDirJoin
    /\ (pc = "exit" /\ response[1] \in {"y", "Y", "yes", "YES", "Yes"})
       => /\ pool = "joined" /\ exit = Some(0)
          /\ out = << <<"images to resize", 0, 0>>, <<"prompt", 0, 0>>, <<"Took", 0, 0>> >>

C18_Witness ==
  /\ DirMode /\ Len(paths) = 0 /\ pc = "exit" /\ pool = "joined"
  /\ progress = Some(NewProgressBar(0))

====
